---------------------------- MODULE Spec2Model ----------------------------
(***************************************************************************)
(* A model of webfic_searcher.py: the paginated browser of an AO3 series   *)
(* (AO3SeriesView), the wf_search command and the provider fallback chains *)
(* of WebficSearcherBot (search_ffn, search_ao3, search_other), the        *)
(* resolution of the links of a message (get_ff_data_from_links,           *)
(* on_message), the embed builders under functools.cache with              *)
(* ff_embed_factory, the autoresponse settings store (_add, _drop, _clear, *)
(* _query) and re.finditer on STORY_WEBSITE_REGEX.                         *)
(*                                                                         *)
(* Spec composes the parts; SpecBrowse, SpecResolve, SpecLinks, SpecStore, *)
(* SpecRender, SpecMessage, SpecCard and SpecDetect run one part each with *)
(* the other parts left in their initial state.  The caches of the embed   *)
(* builders are shared: the view, wf_search and on_message all fill them.  *)
(***************************************************************************)
EXTENDS Integers, Sequences, FiniteSets, Bags, TLC

VARIABLES
    total_pages,    \* len(series.works_list), the N of the browse session
    series,         \* AO3SeriesView.series, the record the view shows
    page_index,     \* AO3SeriesView.page_index
    disabled,       \* the .disabled flag of each child item of the view
    stopped,        \* no view listens: none was sent, or the view is finished
                    \* (its timeout has fired, or View.stop() has run)
    timeout_pc,     \* on_timeout: "waiting" (not fired), "editing", "done";
                    \* "none" while no view has been sent
    message,        \* what the attached message shows: page and item flags
    edits,          \* interaction.response.edit_message calls in flight: a
                    \* bag, one copy of its payload for each call
    last,           \* the last interaction or event and what it produced
    fn,             \* which search coroutine was called
    query,          \* its name_or_url argument
    providers,      \* how each provider client answers during this search
    call_pc,        \* the await at which the search coroutine is suspended
    calls,          \* the provider requests issued so far, in order
    logs,           \* the log records emitted so far, in order
    result,         \* what the search coroutine returned or raised
    followup,       \* what wf_search gave itx.followup.send, and whether
                    \* the send is still to answer
    matches,        \* re.finditer(STORY_WEBSITE_REGEX, text), as a list
    match_idx,      \* the position in matches of the match being resolved
    yielded,        \* what get_ff_data_from_links has yielded, in order
    gen_pc,         \* the generator: "idle", "running", "exhausted", "raised",
                    \* or "abandoned" by a consumer that raised
    db,             \* the database: the rows of each table that exists
    store_call,     \* the last call of a store function and how it ended
    incoming,       \* the last message on_message was called with
    sent,           \* the embeds on_message has sent for it, in order
    clock,          \* discord.utils.utcnow(), in ticks
    embed_cache,    \* the caches of the four embed builders, as one
    rendered,       \* how the last call of ff_embed_factory ended, by value
    built,          \* the last embed built for a story of given sizes
    text,           \* the text re.finditer was last called on
    scan_pos,       \* where in text the running scan stands
    found,          \* the matches the running scan has produced
    scans           \* the match lists of the scans that have finished

browse_vars == <<total_pages, series, page_index, disabled, stopped, timeout_pc,
                 message, edits, last>>

resolve_vars == <<fn, query, providers, call_pc, calls, logs, result,
                  followup>>

links_vars == <<matches, match_idx, yielded, gen_pc>>

store_vars == <<db, store_call>>

message_vars == <<incoming, sent>>

render_vars == <<clock, embed_cache, rendered, built>>

detect_vars == <<text, scan_pos, found, scans>>

vars == <<browse_vars, resolve_vars, links_vars, store_vars, message_vars,
          render_vars, detect_vars>>

\* What a step of the browse session leaves alone: all but the view and
\* the caches of the builders that render its pages.
beside_browse == <<resolve_vars, links_vars, store_vars, message_vars,
                   detect_vars, clock, rendered, built>>

\* What a step of a search coroutine leaves alone whoever awaits it.
beside_resolve == <<links_vars, store_vars, message_vars, detect_vars,
                    clock, built>>

-----------------------------------------------------------------------------
(* Bounds of the model. *)

\* The largest number of works in the series being browsed.
MaxWorks == 2
\* How many response edits may be in flight at once.
MaxInflight == 2
\* How far page_index may run past either end of the list of works.
MaxOver == 1
\* The largest story, work or series id in a query.
MaxId == 2
\* The largest number of links in the text of a message.
MaxLinks == 2
\* The largest story, work or series id in a link of a message.
MaxLinkId == 1
\* The largest number of locations given to one call of the store.
MaxBatch == 2
\* The number of distinct records of each type that are rendered.
MaxStories == 1
\* The summaries of the records: MaxWords words of WordLen characters, one
\* space between two, and every WordStep-th number of words below.
WordLen == 10
MaxWords == 9091
WordStep == 50
\* The sizes of the fields of an embed beside its summary: up to MaxOther
\* times OtherStep characters.
OtherStep == 250
MaxOther == 4
\* The largest number of pieces of a text that is scanned for links.
MaxPieces == 5

-----------------------------------------------------------------------------
(* The queries, the requests to the provider clients and their records *)

\* A name_or_url argument: a title, or text holding a story url of a site.
\* extra tells whether the text holds more than the span the site's
\* story_regex matches (a scheme, a chapter path, surrounding words).
Title == [form |-> "title", site |-> "none", type |-> "none", id |-> 0,
          extra |-> FALSE]
Url(site, type, id, extra) ==
    [form |-> "url", site |-> site, type |-> type, id |-> id, extra |-> extra]
Queries ==
    {Title}
    \cup {Url("FFN", "s", i, x) : i \in 0..MaxId, x \in BOOLEAN}
    \cup {Url("AO3", t, i, x) :
              t \in {"works", "series"}, i \in 0..MaxId, x \in BOOLEAN}
    \cup {Url("SB", "threads", 0, x) : x \in BOOLEAN}

\* An integer id passed to a client, int(match.group(...)) or fic_id.
IdArg(site, id) ==
    [form |-> "id", site |-> site, type |-> "none", id |-> id, extra |-> FALSE]

\* The limit search_ffn passes to get_bulk_metadata.
bulk_limit == 1

Clients == {"atlas", "fichub", "ao3"}
\* A client answers with a record ("ok"), with an empty answer ("empty"),
\* raises its own exception class ("fail") or raises anything else ("error").
Outcomes == {"ok", "empty", "fail", "error"}
ExceptionOf(client) ==
    CASE client = "atlas" -> "AtlasException"
      [] client = "fichub" -> "FicHubException"
      [] client = "ao3" -> "AO3Exception"

Request(client, method, arg, limit) ==
    [client |-> client, method |-> method, arg |-> arg, limit |-> limit]
NoRequest ==
    Request("none", "none",
            [form |-> "none", site |-> "none", type |-> "none", id |-> 0,
             extra |-> FALSE], 0)

\* A record of a story: the request it answers, the number of words of its
\* summary, the size of what its embed holds beside the summary, and for a
\* series the size of the list of the links to its works.
Story(from, words, other, links) ==
    [found |-> TRUE, from |-> from, words |-> words, other |-> other,
     links |-> links]

\* The record a client returns for a request (for a search, the first
\* ranked hit), and Python's None.  The stories asked for by an even id,
\* the thread among them, have a summary of MaxWords words; the others,
\* and the hit of a search by title, have one of WordStep words.
AnswerOf(req) ==
    Story(req,
          IF req.arg.form # "title" /\ req.arg.id % 2 = 0 THEN MaxWords
          ELSE WordStep,
          OtherStep,
          IF req.method = "get_series" THEN OtherStep ELSE 0)
None == [found |-> FALSE, from |-> NoRequest]

Pending == [status |-> "pending", value |-> None, exc |-> "none"]
Returned(v) == [status |-> "returned", value |-> v, exc |-> "none"]
Raised(e) == [status |-> "raised", value |-> None, exc |-> e]

Warning(msg) == [level |-> "warning", msg |-> msg]
\* log.exception("") logs at level ERROR.
Exception(msg) == [level |-> "error", msg |-> msg]

\* atlas_api.extract_fic_id(name_or_url): the id of the FFN url in the
\* text as an int, or None (NoId).
NoId == 0 - 1
extract_fic_id(q) == IF q.form = "url" /\ q.site = "FFN" THEN q.id ELSE NoId

\* Python's truth value of an int | None.
truthy(v) == v # NoId /\ v # 0

\* re.search(STORY_WEBSITE_STORE["AO3"].story_regex, name_or_url) matches.
ao3_match(q) == q.form = "url" /\ q.site = "AO3"
\* match.group(0): the matched span alone.
group0(q) == [q EXCEPT !.extra = FALSE]

-----------------------------------------------------------------------------
(* ff_embed_factory and the embed builders *)

\* The size an embed may have.
EmbedLimit == 6000

\* len(text) of a text of so many words.
TextLen(words) == IF words = 0 THEN 0 ELSE words * (WordLen + 1) - 1

\* len(textwrap.shorten(text, width, placeholder=...)) for a text of so
\* many words, which may end with whitespace, and a placeholder of so many
\* characters.  A width below 1 and a placeholder longer than the width
\* raise ValueError; a text that fits is returned with its whitespace
\* collapsed; of any other the most words that fit together with the
\* placeholder are kept, and the placeholder alone if not one word fits.
\* The result is the length of what is returned, or the exception.
shorten(words, width, placeholder) ==
    IF width <= 0 \/ placeholder > width
    THEN [length |-> 0, exc |-> "ValueError"]
    ELSE IF TextLen(words) <= width
    THEN [length |-> TextLen(words), exc |-> "none"]
    ELSE LET fit == (width - placeholder + 1) \div (WordLen + 1) IN
         IF fit >= 1 THEN [length |-> TextLen(fit) + placeholder, exc |-> "none"]
         ELSE [length |-> placeholder, exc |-> "none"]

\* How a builder ends for a record: the width it gave to shorten, the
\* length of the description it set, the size of the embed it returns, or
\* its exception.
Card(record, width, description, exc) ==
    [record |-> record, width |-> width, description |-> description,
     size |-> record.other + description, exc |-> exc]

\* create_ao3_work_embed: the embed is made without description, and the
\* summary is shortened to what the embed leaves of the limit, with "..."
\* as the placeholder.
create_ao3_work_embed(work) ==
    LET width == EmbedLimit - work.other
        descr == shorten(work.words, width, 3)
    IN Card(work, width, descr.length, descr.exc)

\* create_ao3_series_embed: the embed is made with the links of the works
\* as its description; the summary is shortened to what is left, with
\* "...\n\n" as the placeholder, and put before the links.
create_ao3_series_embed(s) ==
    LET width == EmbedLimit - (s.other + s.links)
        series_descr == shorten(s.words, width, 5)
    IN Card(s, width, series_descr.length + s.links, series_descr.exc)

\* create_atlas_ffn_embed: the embed is made with the whole summary as its
\* description, and the summary is shortened to what that embed leaves of
\* the limit.
create_atlas_ffn_embed(story) ==
    LET width == EmbedLimit - (story.other + TextLen(story.words))
        descr == shorten(story.words, width, 3)
    IN Card(story, width, descr.length, descr.exc)

\* create_fichub_embed: as create_atlas_ffn_embed.
create_fichub_embed(story) ==
    LET width == EmbedLimit - (story.other + TextLen(story.words))
        descr == shorten(story.words, width, 3)
    IN Card(story, width, descr.length, descr.exc)

\* type(story_data): None, or the class of the record of the client and
\* method the value came from; a value of no client is of a class the
\* factory does not know.
story_type(story_data) ==
    IF ~story_data.found THEN "NoneType"
    ELSE CASE story_data.from.client = "atlas" -> "atlas_api.Story"
           [] story_data.from.client = "fichub" -> "fichub_api.Story"
           [] story_data.from.client = "ao3"
                  /\ story_data.from.method = "get_series" -> "ao3.Series"
           [] story_data.from.client = "ao3" -> "ao3.Work"
           [] OTHER -> "str"

\* A value of a class the factory does not know.
Unrecognised == AnswerOf(NoRequest)

EMBED_STRATEGIES ==
    [t \in {"atlas_api.Story", "fichub_api.Story", "ao3.Work", "ao3.Series"} |->
        CASE t = "atlas_api.Story" -> "create_atlas_ffn_embed"
          [] t = "fichub_api.Story" -> "create_fichub_embed"
          [] t = "ao3.Work" -> "create_ao3_work_embed"
          [] t = "ao3.Series" -> "create_ao3_series_embed"]

\* An embed: the builder that made it, the record it shows and its
\* timestamp.
Embed(builder, of, timestamp) ==
    [builder |-> builder, of |-> of, timestamp |-> timestamp]

\* No embed: the call that should have made one raised.
NoEmbed == Embed("none", None, 0)

\* NotFoundEmbed(*args): the arguments are ignored.
NotFoundEmbed(args, now) == Embed("NotFoundEmbed", None, now)

\* The function functools.cache wraps under the name builder, called with
\* arg.
wrapped(builder, arg) ==
    CASE builder = "create_ao3_work_embed" -> create_ao3_work_embed(arg)
      [] builder = "create_ao3_series_embed" -> create_ao3_series_embed(arg)
      [] builder = "create_atlas_ffn_embed" -> create_atlas_ffn_embed(arg)
      [] builder = "create_fichub_embed" -> create_fichub_embed(arg)

\* A builder under functools.cache called with arg at time now: the embed
\* made by the first call with an equal argument is returned; otherwise
\* the builder runs, and the embed it returns is kept, while an exception
\* it raises leaves the call and nothing is kept.  The result is the
\* embed, the exception and the caches as the call leaves them.
functools_cache(cache, builder, arg, now) ==
    IF \E e \in cache : e.builder = builder /\ e.of = arg
    THEN [embed |-> CHOOSE e \in cache : e.builder = builder /\ e.of = arg,
          exc |-> "none", cache |-> cache]
    ELSE IF wrapped(builder, arg).exc # "none"
    THEN [embed |-> NoEmbed, exc |-> wrapped(builder, arg).exc, cache |-> cache]
    ELSE [embed |-> Embed(builder, arg, now), exc |-> "none",
          cache |-> cache \cup {Embed(builder, arg, now)}]

\* ff_embed_factory with every record sent to create_fichub_embed.
ff_embed_factory_one_builder(story_data, cache, now) ==
    IF ~story_data.found
    THEN [strategy |-> "NotFoundEmbed", embed |-> NotFoundEmbed(story_data, now),
          exc |-> "none", cache |-> cache]
    ELSE LET call == functools_cache(cache, "create_fichub_embed", story_data, now)
         IN [strategy |-> "create_fichub_embed", embed |-> call.embed,
             exc |-> call.exc, cache |-> call.cache]

\* ff_embed_factory(story_data) at time now, with the caches as they are:
\* strategy = EMBED_STRATEGIES.get(type(story_data), NotFoundEmbed), and
\* strategy(story_data) is returned, or its exception raised.
ff_embed_factory(story_data, cache, now) ==
    IF story_type(story_data) \in DOMAIN EMBED_STRATEGIES
    THEN LET strategy == EMBED_STRATEGIES[story_type(story_data)]
             call == functools_cache(cache, strategy, story_data, now)
         IN [strategy |-> strategy, embed |-> call.embed, exc |-> call.exc,
             cache |-> call.cache]
    ELSE [strategy |-> "NotFoundEmbed", embed |-> NotFoundEmbed(story_data, now),
          exc |-> "none", cache |-> cache]

\* The records that are rendered: for each number up to MaxStories a story
\* of Atlas, a story of FicHub, a work and a series of AO3, and the thread
\* FicHub knows.
Stories ==
    {AnswerOf(Request("fichub", "get_story_metadata",
                      Url("SB", "threads", 0, FALSE), 0))} \cup
    UNION {{AnswerOf(Request("atlas", "get_story_metadata", IdArg("FFN", i), 0)),
            AnswerOf(Request("fichub", "get_story_metadata", Url("FFN", "s", i, FALSE), 0)),
            AnswerOf(Request("ao3", "get_work", IdArg("AO3", i), 0)),
            AnswerOf(Request("ao3", "get_series", IdArg("AO3", i), 0))} :
           i \in 1..MaxStories}

\* No embed has been made.
InitRender ==
    /\ clock = 0
    /\ embed_cache = {}
    /\ rendered = {}

\* ff_embed_factory(story_data) is called: rendered keeps, for each value,
\* how the last call with it ended.
render(story_data) ==
    LET call == ff_embed_factory(story_data, embed_cache, clock) IN
    /\ embed_cache' = call.cache
    /\ rendered' = {r \in rendered : r.story_data # story_data}
                       \cup {[story_data |-> story_data, strategy |-> call.strategy,
                              embed |-> call.embed, exc |-> call.exc]}

\* A caller renders a record, the absent result or a value of another
\* class.
call_ff_embed_factory ==
    /\ \E story_data \in Stories \cup {None, Unrecognised} : render(story_data)
    /\ UNCHANGED <<clock, built>>
    /\ UNCHANGED <<browse_vars, resolve_vars, links_vars, store_vars,
                   message_vars, detect_vars>>

\* Time passes: discord.utils.utcnow() gives another time than before.
utcnow_advances ==
    /\ clock = 0
    /\ clock' = clock + 1
    /\ UNCHANGED <<embed_cache, rendered, built>>
    /\ UNCHANGED <<browse_vars, resolve_vars, links_vars, store_vars,
                   message_vars, detect_vars>>

RenderNext ==
    \/ call_ff_embed_factory
    \/ utcnow_advances

-----------------------------------------------------------------------------
(* AO3SeriesView *)

\* author_id, the user wf_search built the view for, and the users who may
\* interact with the message.
author_id == "owner"
Users == {"owner", "other"}

Items == {"select", "prev", "next"}

SeriesPage == [kind |-> "series", pos |-> 0]
WorkPage(k) == [kind |-> "work", pos |-> k]
IndexError == [kind |-> "IndexError", pos |-> 0]

\* series.works_list[j] of a Python list of total_pages works, the works
\* numbered 1..total_pages in list order; a negative j counts from the end.
works_list_getitem(j) ==
    IF 0 <= j /\ j < total_pages THEN WorkPage(j + 1)
    ELSE IF 0 - total_pages <= j /\ j < 0 THEN WorkPage(total_pages + j + 1)
    ELSE IndexError

\* format_page with self.page_index = idx, at time now and with the caches
\* of the builders as they are: the page, made by create_ao3_series_embed
\* of the series or by create_ao3_work_embed of the work of that number,
\* or the exception that leaves format_page, and the caches as the call
\* leaves them.
format_page(idx, cache, now) ==
    LET page == IF idx # 0 THEN works_list_getitem(idx - 1) ELSE SeriesPage
        call == IF page.kind = "series"
                THEN functools_cache(cache, "create_ao3_series_embed", series, now)
                ELSE functools_cache(cache, "create_ao3_work_embed",
                         AnswerOf(Request("ao3", "get_work",
                                          IdArg("AO3", page.pos), 0)), now)
    IN IF page.kind = "IndexError"
       THEN [page |-> page, exc |-> "IndexError", cache |-> cache]
       ELSE [page |-> page, exc |-> call.exc, cache |-> call.cache]

\* disable_page_buttons with self.page_index = idx, on the item flags d.
disable_page_buttons(d, idx) ==
    [d EXCEPT !["prev"] = (idx = 0), !["next"] = (idx = total_pages - 1)]

\* interaction_check letting every user through.
interaction_check_open(user) == user \in Users

\* interaction_check: the value it returns for an interaction of user.
interaction_check(user) == author_id = user

\* update_page with a suspension between the render and the recomputation
\* of the flags: the response carries the page of idx and the flags as they
\* were before the transition.
update_page_suspended(idx, op, actor) ==
    LET embed_page == format_page(idx, embed_cache, clock) IN
    /\ embed_cache' = embed_page.cache
    /\ IF embed_page.exc # "none"
       THEN /\ UNCHANGED <<disabled, edits>>
            /\ last' = [op |-> op, actor |-> actor, out |-> embed_page.exc]
       ELSE /\ disabled' = disable_page_buttons(disabled, idx)
            /\ edits' = edits (+) SetToBag({[page |-> embed_page.page,
                                             disabled |-> disabled]})
            /\ last' = [op |-> op, actor |-> actor, out |-> "edit"]

\* update_page with self.page_index = idx, for the interaction op of actor:
\* the page is rendered first, and a page made now is kept by the cache of
\* its builder; an exception of format_page leaves the handler before the
\* flags are recomputed and before any response is sent.
update_page(idx, op, actor) ==
    LET embed_page == format_page(idx, embed_cache, clock) IN
    /\ embed_cache' = embed_page.cache
    /\ IF embed_page.exc # "none"
       THEN /\ UNCHANGED <<disabled, edits>>
            /\ last' = [op |-> op, actor |-> actor, out |-> embed_page.exc]
       ELSE /\ disabled' = disable_page_buttons(disabled, idx)
            /\ edits' = edits (+) SetToBag(
                   {[page |-> embed_page.page,
                     disabled |-> disable_page_buttons(disabled, idx)]})
            /\ last' = [op |-> op, actor |-> actor, out |-> "edit"]

\* interaction_check refusing an interaction: the notice is sent, the
\* callback is not run.
refuse(op, actor) ==
    /\ last' = [op |-> op, actor |-> actor, out |-> "notice"]
    /\ UNCHANGED <<page_index, disabled, edits, embed_cache>>

\* An interaction with item reaches the view: the view still listens, the
\* message shows the item enabled.  A view listens from the send of its
\* message until its timeout fires: discord.ui.View is finished, and takes
\* no more input, before on_timeout runs.
Delivered_until_stop(item) ==
    /\ timeout_pc \in {"waiting", "editing"}
    /\ ~message.disabled[item]
    /\ BagCardinality(edits) < MaxInflight

Delivered(item) ==
    /\ ~stopped
    /\ ~message.disabled[item]
    /\ BagCardinality(edits) < MaxInflight

\* The select_page callback with select.values[0] = str(v).
select_page(actor, v) ==
    /\ page_index' = v
    /\ update_page(v, "select", actor)

\* The turn_to_previous callback.
turn_to_previous(actor) ==
    /\ page_index' = page_index - 1
    /\ update_page(page_index - 1, "prev", actor)

\* The turn_to_next callback.
turn_to_next(actor) ==
    /\ page_index' = page_index + 1
    /\ update_page(page_index + 1, "next", actor)

\* A user picks option v of the dropdown; populate_select offers 0..N.
SelectPage(actor, v) ==
    /\ UNCHANGED beside_browse
    /\ Delivered("select")
    /\ IF interaction_check(actor) THEN select_page(actor, v)
       ELSE refuse("select", actor)
    /\ UNCHANGED <<total_pages, series, stopped, timeout_pc, message>>

\* A user presses "<".
TurnToPrevious(actor) ==
    /\ UNCHANGED beside_browse
    /\ Delivered("prev")
    /\ page_index > 0 - (total_pages + MaxOver)
    /\ IF interaction_check(actor) THEN turn_to_previous(actor)
       ELSE refuse("prev", actor)
    /\ UNCHANGED <<total_pages, series, stopped, timeout_pc, message>>

\* A user presses ">".
TurnToNext(actor) ==
    /\ UNCHANGED beside_browse
    /\ Delivered("next")
    /\ page_index < total_pages + MaxOver
    /\ IF interaction_check(actor) THEN turn_to_next(actor)
       ELSE refuse("next", actor)
    /\ UNCHANGED <<total_pages, series, stopped, timeout_pc, message>>

\* A user tries an item the message shows disabled: no interaction is
\* created, nothing runs.
PressDisabled(item, actor) ==
    /\ UNCHANGED beside_browse
    /\ message.disabled[item]
    /\ last' = [op |-> item, actor |-> actor, out |-> "disabled"]
    /\ UNCHANGED <<total_pages, series, page_index, disabled, stopped,
                   timeout_pc, message, edits, embed_cache>>

\* A user tries an item the message shows enabled after the timeout of the
\* view has fired: the view is finished, the interaction reaches no
\* callback and nothing of the view changes.
Undelivered(item, actor) ==
    /\ UNCHANGED beside_browse
    /\ stopped
    /\ timeout_pc \in {"editing", "done"}
    /\ ~message.disabled[item]
    /\ last' = [op |-> "undelivered", actor |-> actor, out |-> "dropped"]
    /\ UNCHANGED <<total_pages, series, page_index, disabled, stopped,
                   timeout_pc, message, edits, embed_cache>>

\* A response edit reaches the message: it shows the page and the flags the
\* handler sent.  Of several calls in flight with the payload e, one has
\* answered and the others are still in flight.
ResponseEdited(e) ==
    /\ UNCHANGED beside_browse
    /\ BagIn(e, edits)
    /\ edits' = edits (-) SetToBag({e})
    /\ message' = [page |-> e.page, disabled |-> e.disabled]
    /\ UNCHANGED <<total_pages, series, page_index, disabled, stopped,
                   timeout_pc, last, embed_cache>>

\* The timeout of the view fires and on_timeout runs up to its await: the
\* view is finished before on_timeout is called, every child is disabled,
\* message.edit is issued with the view as it is now.
OnTimeout_buttons ==
    /\ UNCHANGED beside_browse
    /\ timeout_pc = "waiting"
    /\ stopped' = TRUE
    /\ disabled' = [disabled EXCEPT !["prev"] = TRUE, !["next"] = TRUE]
    /\ timeout_pc' = "editing"
    /\ last' = [op |-> "timeout", actor |-> "system", out |-> "edit"]
    /\ UNCHANGED <<total_pages, series, page_index, message, edits,
                   embed_cache>>

OnTimeout ==
    /\ UNCHANGED beside_browse
    /\ timeout_pc = "waiting"
    /\ stopped' = TRUE
    /\ disabled' = [i \in Items |-> TRUE]
    /\ timeout_pc' = "editing"
    /\ last' = [op |-> "timeout", actor |-> "system", out |-> "edit"]
    /\ UNCHANGED <<total_pages, series, page_index, message, edits,
                   embed_cache>>

\* on_timeout after its await: the message shows every item disabled, then
\* stop(), which finds the view finished.
OnTimeoutStop ==
    /\ UNCHANGED beside_browse
    /\ timeout_pc = "editing"
    /\ message' = [message EXCEPT !.disabled = [i \in Items |-> TRUE]]
    /\ stopped' = TRUE
    /\ timeout_pc' = "done"
    /\ UNCHANGED <<total_pages, series, page_index, disabled, edits, last,
                   embed_cache>>

\* get_first_page: format_page runs with page_index set to 0 and page_index
\* is put back; an exception of format_page leaves it at 0.
get_first_page ==
    /\ UNCHANGED beside_browse
    /\ series # None
    /\ LET embed == format_page(0, embed_cache, clock) IN
       /\ embed_cache' = embed.cache
       /\ page_index' = IF embed.exc # "none" THEN 0 ELSE page_index
    /\ UNCHANGED <<total_pages, series, disabled, stopped, timeout_pc, message,
                   edits, last>>

\* AO3SeriesView(author_id, story_data) as wf_search builds it, a view of
\* a series of n works: it has no message yet, nothing shows its items and
\* it does not listen.
AO3SeriesView(story_data, n) ==
    /\ total_pages' = n
    /\ series' = story_data
    /\ page_index' = 0
    /\ disabled' = disable_page_buttons([i \in Items |-> FALSE], 0)'
    /\ stopped' = TRUE
    /\ timeout_pc' = "none"
    /\ message' = [page |-> [kind |-> "unassigned", pos |-> 0],
                   disabled |-> [i \in Items |-> FALSE]]
    /\ edits' = EmptyBag
    /\ last' = [op |-> "init", actor |-> author_id, out |-> "sending"]

\* No view has been built: there is no series, no message and no item to
\* interact with.
InitBrowse ==
    /\ total_pages = 0
    /\ series = None
    /\ page_index = 0
    /\ disabled = [i \in Items |-> FALSE]
    /\ stopped = TRUE
    /\ timeout_pc = "none"
    /\ message = [page |-> [kind |-> "unassigned", pos |-> 0],
                  disabled |-> [i \in Items |-> FALSE]]
    /\ edits = EmptyBag
    /\ last = [op |-> "none", actor |-> "system", out |-> "none"]

BrowseNext ==
    \/ \E a \in Users, v \in 0..total_pages : SelectPage(a, v)
    \/ \E a \in Users : TurnToPrevious(a)
    \/ \E a \in Users : TurnToNext(a)
    \/ \E i \in Items, a \in Users : PressDisabled(i, a)
    \/ \E i \in Items, a \in Users : Undelivered(i, a)
    \/ \E e \in BagToSet(edits) : ResponseEdited(e)
    \/ OnTimeout
    \/ OnTimeoutStop
    \/ get_first_page

-----------------------------------------------------------------------------
(* WebficSearcherBot: search_ffn, search_ao3, search_other *)

\* The request whose answer the coroutine is waiting for, and its outcome.
awaited == calls[Len(calls)]
outcome == providers[awaited.client]

\* The caller goes on with story_data in the step in which the search
\* returns it.  get_ff_data_from_links stands at its yield.  wf_search
\* renders story_data with ff_embed_factory, whose exception leaves the
\* command; for a series it builds an AO3SeriesView, of a series of any
\* number of works, and calls itx.followup.send with the embed and the
\* view, and it calls it with the embed alone for anything else.  It is
\* then suspended until the send answers.  followup is what it gave
\* itx.followup.send, the embed and whether the view came with it, and
\* that the send is pending; or nothing and the exception.
search_returned(story_data) ==
    IF gen_pc = "running"
    THEN UNCHANGED <<browse_vars, embed_cache, rendered, followup>>
    ELSE LET embed == ff_embed_factory(story_data, embed_cache, clock)
             isinstance == story_type(story_data) = "ao3.Series"
         IN /\ render(story_data)
            /\ followup' = [embed |-> embed.embed,
                            view |-> embed.exc = "none" /\ isinstance,
                            exc |-> embed.exc,
                            pending |-> embed.exc = "none"]
            /\ IF embed.exc = "none" /\ isinstance
               THEN \E n \in 0..MaxWorks : AO3SeriesView(story_data, n)
               ELSE UNCHANGED browse_vars

\* return story_data, with story_data the awaited answer (None when the
\* client answered with nothing).
return_answer ==
    /\ result' = Returned(IF outcome = "ok" THEN AnswerOf(awaited) ELSE None)
    /\ call_pc' = "done"
    /\ UNCHANGED <<calls, logs>>
    /\ search_returned(IF outcome = "ok" THEN AnswerOf(awaited) ELSE None)

\* The awaited call raises and no except clause of the coroutine catches it.
propagate ==
    /\ result' = Raised(IF outcome = "fail" THEN ExceptionOf(awaited.client)
                        ELSE "other")
    /\ call_pc' = "done"
    /\ UNCHANGED <<calls, logs>>
    /\ UNCHANGED <<browse_vars, embed_cache, rendered, followup>>

\* An except clause falls back to the next provider: it logs msg and awaits
\* req.
fall_back(msg, req, pc) ==
    /\ logs' = Append(logs, Warning(msg))
    /\ calls' = Append(calls, req)
    /\ call_pc' = pc
    /\ UNCHANGED result
    /\ UNCHANGED <<browse_vars, embed_cache, rendered, followup>>

\* An except clause gives up: it logs and the coroutine returns None.
give_up(record) ==
    /\ logs' = Append(logs, record)
    /\ result' = Returned(None)
    /\ call_pc' = "done"
    /\ UNCHANGED calls
    /\ search_returned(None)

\* A search coroutine is called with q while the clients answer as oc; it
\* runs up to its first await, of req.
start(f, q, oc, req, pc) ==
    /\ call_pc = "idle"
    /\ fn' = f
    /\ query' = q
    /\ providers' = oc
    /\ calls' = <<req>>
    /\ call_pc' = pc
    /\ UNCHANGED <<logs, result>>
    /\ UNCHANGED <<browse_vars, embed_cache, rendered, followup>>
    /\ UNCHANGED beside_resolve

\* search_ffn up to its first await.
search_ffn(q, oc) ==
    LET fic_id == extract_fic_id(q) IN
    IF truthy(fic_id)
    THEN start("search_ffn", q, oc,
               Request("atlas", "get_story_metadata", IdArg("FFN", fic_id), 0),
               "ffn_atlas")
    ELSE start("search_ffn", q, oc,
               Request("atlas", "get_bulk_metadata", q, bulk_limit),
               "ffn_bulk")

\* search_ffn_atlas_returns with an empty answer of Atlas treated as a
\* failure: the coroutine falls back to FicHub on it.
search_ffn_atlas_returns_eager ==
    /\ call_pc = "ffn_atlas"
    /\ CASE outcome = "ok" -> return_answer
         [] outcome \in {"fail", "empty"} ->
                fall_back("Retrieval with Atlas client failed. Trying FicHub now.",
                          Request("fichub", "get_story_metadata", query, 0),
                          "ffn_fichub")
         [] outcome = "error" -> propagate
    /\ UNCHANGED <<fn, query, providers>>
    /\ UNCHANGED beside_resolve

\* search_ffn: atlas_client.get_story_metadata(fic_id) completes.
search_ffn_atlas_returns ==
    /\ call_pc = "ffn_atlas"
    /\ CASE outcome \in {"ok", "empty"} -> return_answer
         [] outcome = "fail" ->
                fall_back("Retrieval with Atlas client failed. Trying FicHub now.",
                          Request("fichub", "get_story_metadata", query, 0),
                          "ffn_fichub")
         [] outcome = "error" -> propagate
    /\ UNCHANGED <<fn, query, providers>>
    /\ UNCHANGED beside_resolve

\* search_ffn: fichub_client.get_story_metadata(name_or_url) completes.
search_ffn_fichub_returns ==
    /\ call_pc = "ffn_fichub"
    /\ CASE outcome \in {"ok", "empty"} -> return_answer
         [] outcome = "fail" ->
                give_up(Warning("Retrieval with Atlas and Fichub clients failed. Returning None."))
         [] outcome = "error" -> propagate
    /\ UNCHANGED <<fn, query, providers>>
    /\ UNCHANGED beside_resolve

\* search_ffn: atlas_client.get_bulk_metadata(...) completes; the first of
\* the results is taken, None if there are none.
search_ffn_bulk_returns ==
    /\ call_pc = "ffn_bulk"
    /\ CASE outcome \in {"ok", "empty"} -> return_answer
         [] outcome \in {"fail", "error"} -> propagate
    /\ UNCHANGED <<fn, query, providers>>
    /\ UNCHANGED beside_resolve

\* search_ao3 up to its first await.
search_ao3(q, oc) ==
    IF ao3_match(q)
    THEN IF q.type = "series"
         THEN start("search_ao3", q, oc,
                    Request("ao3", "get_series", IdArg("AO3", q.id), 0),
                    "ao3_series")
         ELSE start("search_ao3", q, oc,
                    Request("fichub", "get_story_metadata", group0(q), 0),
                    "ao3_fichub")
    ELSE start("search_ao3", q, oc,
               Request("ao3", "search_works", q, 0),
               "ao3_search")

\* search_ao3_series_returns without the except clause of the series
\* branch: the failure of the archive client leaves the coroutine.
search_ao3_series_returns_uncaught ==
    /\ call_pc = "ao3_series"
    /\ CASE outcome \in {"ok", "empty"} -> return_answer
         [] outcome \in {"fail", "error"} -> propagate
    /\ UNCHANGED <<fn, query, providers>>
    /\ UNCHANGED beside_resolve

\* search_ao3: ao3_client.get_series(int(series_id)) completes.
search_ao3_series_returns ==
    /\ call_pc = "ao3_series"
    /\ CASE outcome \in {"ok", "empty"} -> return_answer
         [] outcome = "fail" -> give_up(Exception(""))
         [] outcome = "error" -> propagate
    /\ UNCHANGED <<fn, query, providers>>
    /\ UNCHANGED beside_resolve

\* search_ao3: fichub_client.get_story_metadata(url) completes.
search_ao3_fichub_returns ==
    /\ call_pc = "ao3_fichub"
    /\ CASE outcome \in {"ok", "empty"} -> return_answer
         [] outcome = "fail" ->
                fall_back("Retrieval with Fichub client failed. Trying the AO3 scraping library now.",
                          Request("ao3", "get_work", IdArg("AO3", query.id), 0),
                          "ao3_work")
         [] outcome = "error" -> propagate
    /\ UNCHANGED <<fn, query, providers>>
    /\ UNCHANGED beside_resolve

\* search_ao3_work_returns without the inner except clause: the failure of
\* the archive client leaves the coroutine.
search_ao3_work_returns_uncaught ==
    /\ call_pc = "ao3_work"
    /\ CASE outcome \in {"ok", "empty"} -> return_answer
         [] outcome \in {"fail", "error"} -> propagate
    /\ UNCHANGED <<fn, query, providers>>
    /\ UNCHANGED beside_resolve

\* search_ao3: ao3_client.get_work(int(work_id)) completes.
search_ao3_work_returns ==
    /\ call_pc = "ao3_work"
    /\ CASE outcome \in {"ok", "empty"} -> return_answer
         [] outcome = "fail" ->
                give_up(Warning("Retrieval with Fichub client and AO3 scraping library failed. Returning None."))
         [] outcome = "error" -> propagate
    /\ UNCHANGED <<fn, query, providers>>
    /\ UNCHANGED beside_resolve

\* search_ao3: ao3_client.search_works(search_options) completes; the
\* first of search.results is taken, None if there are none.
search_ao3_search_returns ==
    /\ call_pc = "ao3_search"
    /\ CASE outcome \in {"ok", "empty"} -> return_answer
         [] outcome \in {"fail", "error"} -> propagate
    /\ UNCHANGED <<fn, query, providers>>
    /\ UNCHANGED beside_resolve

\* search_other up to its await.
search_other(q, oc) ==
    start("search_other", q, oc,
          Request("fichub", "get_story_metadata", q, 0), "other_fichub")

\* search_other: fichub_client.get_story_metadata(url) completes.
search_other_returns ==
    /\ call_pc = "other_fichub"
    /\ CASE outcome \in {"ok", "empty"} -> return_answer
         [] outcome \in {"fail", "error"} -> propagate
    /\ UNCHANGED <<fn, query, providers>>
    /\ UNCHANGED beside_resolve

\* No search has been called.
InitResolve ==
    /\ fn = "none"
    /\ query = Title
    /\ providers = [c \in Clients |-> "ok"]
    /\ call_pc = "idle"
    /\ calls = <<>>
    /\ logs = <<>>
    /\ result = Pending
    /\ followup = [embed |-> NoEmbed, view |-> FALSE, exc |-> "none",
                   pending |-> FALSE]

\* itx.followup.send answers and wf_search ends.  The message sent with a
\* view is assigned to view.message: it shows the page of the series and
\* the items as the view had them, and the view listens from now on.
followup_send_returns ==
    /\ followup.pending
    /\ followup' = [followup EXCEPT !.pending = FALSE]
    /\ IF followup.view
       THEN /\ message' = [page |-> SeriesPage, disabled |-> disabled]
            /\ stopped' = FALSE
            /\ timeout_pc' = "waiting"
            /\ last' = [op |-> "init", actor |-> author_id, out |-> "sent"]
            /\ UNCHANGED <<total_pages, series, page_index, disabled, edits>>
       ELSE UNCHANGED browse_vars
    /\ UNCHANGED <<fn, query, providers, call_pc, calls, logs, result>>
    /\ UNCHANGED <<embed_cache, rendered>>
    /\ UNCHANGED beside_resolve

\* wf_search up to the await of the search coroutine of the platform, with
\* name_or_url = q, while the clients answer as oc.  What it does with the
\* result is search_returned, in the step in which the search returns.
wf_search(platform) ==
    /\ call_pc = "idle"
    /\ gen_pc # "running"
    /\ \E q \in Queries, oc \in [Clients -> Outcomes] :
          CASE platform = "ao3" -> search_ao3(q, oc)
            [] platform = "ffn" -> search_ffn(q, oc)
            [] platform = "other" -> search_other(q, oc)

ResolveNext ==
    \/ wf_search("ao3")
    \/ wf_search("ffn")
    \/ wf_search("other")
    \/ search_ffn_atlas_returns
    \/ search_ffn_fichub_returns
    \/ search_ffn_bulk_returns
    \/ search_ao3_series_returns
    \/ search_ao3_fichub_returns
    \/ search_ao3_work_returns
    \/ search_ao3_search_returns
    \/ search_other_returns
    \/ followup_send_returns

-----------------------------------------------------------------------------
(* get_ff_data_from_links *)

\* The links STORY_WEBSITE_REGEX can match in a text: each is the group(0)
\* of its match, so nothing follows the id.
\* The texts of a message are the lists of up to MaxLinks of them, as
\* re.finditer finds them.
Texts ==
    LET Links == {Url("FFN", "s", i, FALSE) : i \in 1..MaxLinkId}
                     \cup {Url("AO3", t, i, FALSE) :
                               t \in {"works", "series"}, i \in 1..MaxLinkId}
                     \cup {Url("SB", "threads", 0, FALSE)}
    IN UNION {[1..n -> Links] : n \in 0..MaxLinks}

\* match_obj.lastgroup: the name of the outermost group of the alternative
\* that matched, which is the key of the website.
lastgroup(match_obj) == match_obj.site

\* The match the generator is at.
match_obj == matches[match_idx]

\* No generator has been created.
InitLinks ==
    /\ matches = <<>>
    /\ match_idx = 0
    /\ yielded = <<>>
    /\ gen_pc = "idle"

\* get_ff_data_from_links(text) is called and iterated: the generator
\* stands before the first match.
get_ff_data_from_links ==
    /\ gen_pc = "idle"
    /\ call_pc = "idle"
    /\ \E content \in Texts : matches' = content
    /\ match_idx' = 1
    /\ yielded' = <<>>
    /\ gen_pc' = "running"
    /\ sent' = <<>>
    /\ UNCHANGED <<resolve_vars, browse_vars, store_vars, detect_vars, incoming, render_vars>>

\* The body of the loop up to its await, for the match at match_idx while
\* the clients answer as oc.
resolve_match ==
    /\ gen_pc = "running"
    /\ call_pc = "idle"
    /\ match_idx <= Len(matches)
    /\ \E oc \in [Clients -> Outcomes] :
          CASE lastgroup(match_obj) = "FFN" ->
                   start("get_ff_data_from_links", match_obj, oc,
                         Request("atlas", "get_story_metadata",
                                 IdArg("FFN", match_obj.id), 0),
                         "links_atlas")
            [] lastgroup(match_obj) = "AO3" -> search_ao3(match_obj, oc)
            [] OTHER -> search_other(match_obj, oc)

\* The FFN branch: atlas_client.get_story_metadata(int(ffn_id)) completes.
resolve_atlas_returns ==
    /\ call_pc = "links_atlas"
    /\ CASE outcome \in {"ok", "empty"} -> return_answer
         [] outcome \in {"fail", "error"} -> propagate
    /\ UNCHANGED <<fn, query, providers>>
    /\ UNCHANGED beside_resolve

\* The body of on_message's loop with an embed sent for every entry.
consume_sending_all(story_data) ==
    LET embed == ff_embed_factory(story_data, embed_cache, clock) IN
    /\ render(story_data)
    /\ sent' = IF embed.exc = "none" THEN Append(sent, embed.embed) ELSE sent
    /\ gen_pc' = IF embed.exc = "none" THEN gen_pc ELSE "abandoned"

\* The body of on_message's loop for one entry: an entry that is not None
\* is rendered, and an embed that is not a NotFoundEmbed is sent to the
\* channel of the message.  An exception of ff_embed_factory leaves
\* on_message: nothing is sent, and the generator is not resumed.
consume(story_data) ==
    LET embed == ff_embed_factory(story_data, embed_cache, clock) IN
    IF story_data # None
    THEN /\ render(story_data)
         /\ sent' = IF embed.exc = "none" /\ embed.embed.builder # "NotFoundEmbed"
                    THEN Append(sent, embed.embed)
                    ELSE sent
         /\ gen_pc' = IF embed.exc = "none" THEN gen_pc ELSE "abandoned"
    ELSE UNCHANGED <<embed_cache, rendered, sent, gen_pc>>

\* yield story_data: the consumer takes the entry, handles it and asks for
\* the next.
yield_story_data ==
    /\ gen_pc = "running"
    /\ call_pc = "done"
    /\ result.status = "returned"
    /\ yielded' = Append(yielded, result.value)
    /\ consume(result.value)
    /\ match_idx' = IF gen_pc' = "abandoned" THEN match_idx ELSE match_idx + 1
    /\ call_pc' = "idle"
    /\ calls' = <<>>
    /\ result' = Pending
    /\ providers' = [c \in Clients |-> "ok"]
    /\ UNCHANGED <<fn, query, logs, followup, matches>>
    /\ UNCHANGED <<browse_vars, store_vars, detect_vars, incoming, clock, built>>

\* An exception of the awaited call leaves the generator: it reaches the
\* consumer at its async for, and the generator is finished.
generator_raises ==
    /\ gen_pc = "running"
    /\ call_pc = "done"
    /\ result.status = "raised"
    /\ gen_pc' = "raised"
    /\ UNCHANGED <<matches, match_idx, yielded>>
    /\ UNCHANGED <<resolve_vars, browse_vars, store_vars, detect_vars, message_vars, render_vars>>

\* re.finditer has no further match: the generator returns.
generator_returns ==
    /\ gen_pc = "running"
    /\ call_pc = "idle"
    /\ match_idx > Len(matches)
    /\ gen_pc' = "exhausted"
    /\ UNCHANGED <<matches, match_idx, yielded>>
    /\ UNCHANGED <<resolve_vars, browse_vars, store_vars, detect_vars, message_vars, render_vars>>

LinksNext ==
    \/ get_ff_data_from_links
    \/ resolve_match
    \/ resolve_atlas_returns
    \/ search_ao3_series_returns
    \/ search_ao3_fichub_returns
    \/ search_ao3_work_returns
    \/ search_other_returns
    \/ yield_story_data
    \/ generator_raises
    \/ generator_returns

-----------------------------------------------------------------------------
(* The autoresponse settings store *)

\* Two guilds of two channels each: enough for a call to touch one guild
\* beside another, and one channel beside another.
Guilds == {1, 2}

Channels == {10, 11}

\* A location is the pair (guild_id, channel_id), and so is a row.
AutoresponseLocation(guild_id, channel_id) == <<guild_id, channel_id>>

guild_id_of(location) == location[1]

channel_id_of(location) == location[2]

Locations == {AutoresponseLocation(g, c) : g \in Guilds, c \in Channels}

\* The lists of locations a command builds: all of the guild of the
\* interaction, one for each channel given.
Batches ==
    UNION {{locations \in [1..n -> Locations] :
                \A i \in 1..n : guild_id_of(locations[i]) = g} :
           n \in 0..MaxBatch, g \in Guilds}

\* The statements: what they do, the table they name, the column of their
\* WHERE clause and the number of their ? placeholders.
Statement(verb, table, column, placeholders) ==
    [verb |-> verb, table |-> table, column |-> column,
     placeholders |-> placeholders]

INITIALIZATION_STATEMENT ==
    Statement("create", "webfic_autoresponse_settings", "none", 0)

SELECT_BY_GUILD_STATEMENT ==
    Statement("select", "webfic_autoresponse_settings", "guild_id", 1)

INSERT_CHANNEL_STATEMENT ==
    Statement("insert", "webfic_autoresponse_settings", "none", 2)

REMOVE_GUILD_CHANNEL_STATEMENT ==
    Statement("delete", "fanfic_autoresponse_settings", "channel_id", 1)

CLEAR_GUILD_CHANNELS_STATEMENT ==
    Statement("delete", "fanfic_autoresponse_settings", "guild_id", 1)

\* The value of the column of a WHERE clause in a row.
column_of(row, column) ==
    IF column = "guild_id" THEN guild_id_of(row) ELSE channel_id_of(row)

\* How a statement or a store function ends: the database it leaves, the
\* rows it returns and the exception it raises ("none" if it returns).
Ended(d, rows, exc) == [db |-> d, rows |-> rows, exc |-> exc]

\* cursor.execute(stmt, bindings) on database d.  The engine fails when
\* told to (an I/O error, a full disk, a locked file); a statement that
\* names a table the database does not have fails to prepare; a statement
\* given another number of bindings than it has placeholders fails to bind.
execute(d, stmt, bindings, engine_fails) ==
    IF stmt.verb = "create"
    THEN Ended(IF stmt.table \in DOMAIN d THEN d ELSE d @@ (stmt.table :> {}),
               {}, "none")
    ELSE IF stmt.table \notin DOMAIN d THEN Ended(d, {}, "SQLError")
    ELSE IF Len(bindings) # stmt.placeholders THEN Ended(d, {}, "BindingsError")
    ELSE IF engine_fails THEN Ended(d, {}, "IOError")
    ELSE CASE stmt.verb = "select" ->
                  Ended(d, {row \in d[stmt.table] :
                               column_of(row, stmt.column) = bindings[1]},
                        "none")
           [] stmt.verb = "insert" ->
                  Ended([d EXCEPT ![stmt.table] =
                             @ \cup {AutoresponseLocation(bindings[1], bindings[2])}],
                        {}, "none")
           [] stmt.verb = "delete" ->
                  Ended([d EXCEPT ![stmt.table] =
                             {row \in @ : column_of(row, stmt.column) # bindings[1]}],
                        {}, "none")

\* cursor.executemany(stmt, sequence) from the i-th entry on: one execution
\* after the other, stopping at the first that raises.  fault is the
\* number of the execution at which the engine fails, 0 for none.
RECURSIVE executemany(_, _, _, _, _)
executemany(d, stmt, sequence, i, fault) ==
    IF i > Len(sequence) THEN Ended(d, {}, "none")
    ELSE LET one == execute(d, stmt, sequence[i], fault = i) IN
         IF one.exc # "none" THEN one
         ELSE executemany(one.db, stmt, sequence, i + 1, fault)

\* with_conn where an exception leaves the changes of the block in place.
with_conn_keeping(d, block) == block

\* with conn: the block runs in a transaction, committed when the block
\* returns and rolled back when an exception leaves it; the exception goes
\* on to the caller.
with_conn(d, block) ==
    IF block.exc = "none" THEN block ELSE Ended(d, {}, block.exc)

\* select_of_first with a SELECT that has no WHERE clause: every row of the
\* settings table is returned.
select_of_first_unscoped(d, locations, engine_fails) ==
    IF Len(locations) = 0 THEN Ended(d, {}, "IndexError")
    ELSE IF engine_fails THEN Ended(d, {}, "IOError")
    ELSE Ended(d, d[SELECT_BY_GUILD_STATEMENT.table], "none")

\* The SELECT that ends _add and _drop, with locations[0] evaluated first.
select_of_first(d, locations, engine_fails) ==
    IF Len(locations) = 0 THEN Ended(d, {}, "IndexError")
    ELSE execute(d, SELECT_BY_GUILD_STATEMENT,
                 <<guild_id_of(locations[1])>>, engine_fails)

_setup_db(d) ==
    with_conn(d, execute(d, INITIALIZATION_STATEMENT, <<>>, FALSE))

_query(d, query_str, params, fault) ==
    with_conn(d, execute(d, query_str, params, fault = 1))

\* _add ending with a SELECT of the whole table in place of the SELECT of
\* the guild of the first location.
_add_selecting_all(d, locations, fault) ==
    with_conn(d,
        LET many == executemany(d, INSERT_CHANNEL_STATEMENT, locations, 1, fault) IN
        IF many.exc # "none" \/ Len(locations) = 0 THEN select_of_first(many.db, locations, FALSE)
        ELSE Ended(many.db, many.db[INSERT_CHANNEL_STATEMENT.table], "none"))

_add(d, locations, fault) ==
    with_conn(d,
        LET many == executemany(d, INSERT_CHANNEL_STATEMENT, locations, 1, fault) IN
        IF many.exc # "none" THEN many
        ELSE select_of_first(many.db, locations, fault = Len(locations) + 1))

_drop(d, locations, fault) ==
    with_conn(d,
        LET many == executemany(d, REMOVE_GUILD_CHANNEL_STATEMENT, locations, 1, fault) IN
        IF many.exc # "none" THEN many
        ELSE select_of_first(many.db, locations, fault = Len(locations) + 1))

_clear(d, guild_id, fault) ==
    with_conn(d, execute(d, CLEAR_GUILD_CHANNELS_STATEMENT, <<guild_id>>, fault = 1))

\* A call of a store function: its arguments, the execution at which the
\* engine was to fail, and how it ended.
StoreCall(op, guild_id, locations, fault, ended) ==
    [op |-> op, guild_id |-> guild_id, locations |-> locations,
     fault |-> fault, rows |-> ended.rows, exc |-> ended.exc]

\* The call leaves the database as it ended and is the last call.
store_returns(op, guild_id, locations, fault, ended) ==
    /\ db' = ended.db
    /\ store_call' = StoreCall(op, guild_id, locations, fault, ended)
    /\ UNCHANGED <<browse_vars, resolve_vars, links_vars, message_vars,
                   render_vars, detect_vars>>

\* The database after _setup_db on a new file; no store function has been
\* called.
InitStore ==
    /\ db = _setup_db(<<>>).db
    /\ store_call = StoreCall("none", 0, <<>>, 0, Ended(db, {}, "none"))

get_guild_autoresponse_channels ==
    \E guild_id \in Guilds, fault \in 0..1 :
        store_returns("query", guild_id, <<>>, fault,
                      _query(db, SELECT_BY_GUILD_STATEMENT, <<guild_id>>, fault))

add_autoresponse_channels ==
    \E locations \in Batches : \E fault \in 0..(Len(locations) + 1) :
        store_returns("add", 0, locations, fault, _add(db, locations, fault))

drop_autoresponse_channels ==
    \E locations \in Batches : \E fault \in 0..(Len(locations) + 1) :
        store_returns("drop", 0, locations, fault, _drop(db, locations, fault))

wf_autoresponse_clear ==
    \E guild_id \in Guilds, fault \in 0..1 :
        store_returns("clear", guild_id, <<>>, fault, _clear(db, guild_id, fault))

StoreNext ==
    \/ get_guild_autoresponse_channels
    \/ add_autoresponse_channels
    \/ drop_autoresponse_channels
    \/ wf_autoresponse_clear

-----------------------------------------------------------------------------
(* on_message *)

\* A message: its author (the bot itself or another user), its guild (0
\* for a message outside of guilds), its channel and the links of its
\* content.
Message(author, guild, channel, content) ==
    [author |-> author, guild |-> guild, channel |-> channel, content |-> content]

\* The messages received: one of the bot itself, one outside of guilds,
\* and those of another user in the channels of the guilds, with no link
\* or one.
Messages ==
    {Message("self", 1, 10, <<>>), Message("other", 0, 10, <<>>)}
        \cup {Message("other", g, c, content) :
                  g \in Guilds, c \in Channels,
                  content \in {t \in Texts : Len(t) <= 1}}

NoMessage == Message("none", 0, 0, <<>>)

\* No message has been received, and nothing has been sent.
InitMessage ==
    /\ incoming = NoMessage
    /\ sent = <<>>

\* The condition of on_message with the membership test left out.
autoresponse_gate_of_guild(channels_cache, msg) ==
    /\ channels_cache # {}
    /\ Len(msg.content) > 0

\* The condition of on_message on the rows just read: the guild has
\* locations, the location of the message is one of them, and re.search
\* finds a link in the content.
autoresponse_gate(channels_cache, msg) ==
    /\ channels_cache # {}
    /\ AutoresponseLocation(msg.guild, msg.channel) \in channels_cache
    /\ Len(msg.content) > 0

\* on_message(message) up to the iteration of get_ff_data_from_links: a
\* message of the bot or outside of guilds is left alone; for any other the
\* locations of the guild are read from the database, and if the condition
\* holds the generator is started on the content.  An exception of the
\* read leaves the handler.
on_message ==
    /\ gen_pc = "idle"
    /\ call_pc = "idle"
    /\ \E msg \in Messages, fault \in 0..1 :
          /\ incoming' = msg
          /\ IF msg.author = "self" \/ msg.guild = 0
             THEN /\ fault = 0
                  /\ UNCHANGED <<store_vars, links_vars, sent>>
             ELSE LET ended == _query(db, SELECT_BY_GUILD_STATEMENT,
                                      <<msg.guild>>, fault) IN
                  /\ db' = ended.db
                  /\ store_call' = StoreCall("query", msg.guild, <<>>, fault, ended)
                  /\ IF ended.exc = "none" /\ autoresponse_gate(ended.rows, msg)
                     THEN /\ matches' = msg.content
                          /\ match_idx' = 1
                          /\ yielded' = <<>>
                          /\ gen_pc' = "running"
                          /\ sent' = <<>>
                     ELSE UNCHANGED <<links_vars, sent>>
    /\ UNCHANGED <<browse_vars, resolve_vars, render_vars, detect_vars>>

\* The commands of the settings, and after them the messages up to the
\* first that is scanned: on_message reads nothing but the database, so
\* what it does after commands and messages in any order is what it does
\* after the commands alone.
MessageNext ==
    \/ on_message
    \/ incoming = NoMessage /\ add_autoresponse_channels
    \/ incoming = NoMessage /\ drop_autoresponse_channels
    \/ incoming = NoMessage /\ wf_autoresponse_clear

-----------------------------------------------------------------------------
(* The sizes of the embeds *)

\* The records the builders are called with: one of each class with a
\* summary of every WordStep-th number of words up to MaxWords, with fields
\* beside it of the multiples of OtherStep, or fields that fill the embed
\* by themselves.
Records ==
    LET Words == {n \in 0..MaxWords : n % WordStep = 0 \/ n = MaxWords}
        Others == {OtherStep * k : k \in 1..MaxOther} \cup {EmbedLimit}
    IN {Story(story.from, n, o, 0) :
           story \in {st \in Stories : st.from.arg.id = 1
                                          /\ story_type(st) # "ao3.Series"},
           n \in Words, o \in Others}
           \cup {Story(Request("ao3", "get_series", IdArg("AO3", 1), 0), n, o, l) :
                     n \in Words, o \in Others, l \in Others \ {EmbedLimit}}

NoCard == Card(Story(NoRequest, 0, 0, 0), 0, 0, "none")

\* A builder is called with a record: what it returns is kept by its
\* cache.
build_card ==
    /\ built = NoCard
    /\ \E record \in Records :
          /\ built' = wrapped(EMBED_STRATEGIES[story_type(record)], record)
          /\ embed_cache' = functools_cache(embed_cache,
                                EMBED_STRATEGIES[story_type(record)],
                                record, clock).cache
    /\ UNCHANGED <<clock, rendered>>
    /\ UNCHANGED <<browse_vars, resolve_vars, links_vars, store_vars,
                   message_vars, detect_vars>>

-----------------------------------------------------------------------------
(* STORY_WEBSITE_REGEX and re.finditer *)

\* The keys of STORY_WEBSITE_STORE.
STORY_WEBSITE_STORE == {"FFN", "FP", "AO3", "SB", "SV", "QQ", "SIYE"}

\* The pieces a text is made of: a scheme, the part of a link of a site up
\* to its id, a digit, a space.
Pieces ==
    {"https://", "fanfiction.net/s/", "archiveofourown.org/works/",
     "forums.spacebattles.com/threads/", "1", " "}

\* The first position from i on where the text has no piece of the set.
RECURSIVE run_end(_, _, _)
run_end(t, i, set) ==
    IF i <= Len(t) /\ t[i] \in set THEN run_end(t, i + 1, set) ELSE i

\* A match: the position of its first piece, the position after its last,
\* and its named groups in the order in which they close; lastgroup is
\* the one closed last.
Match(first, end, groups) ==
    [start |-> first, end |-> end, lastgroup |-> groups[Len(groups)]]

NoMatch == [start |-> 0, end |-> 0, lastgroup |-> "None"]

\* Is piece p at position i of t?
at(t, i, p) == i <= Len(t) /\ t[i] = p

\* STORY_WEBSITE_REGEX.match(t, i): the scheme belongs to the first
\* alternative only; \d+ takes every digit that follows, \S* everything up
\* to the next whitespace.
regex_match(t, i) ==
    IF at(t, i, "https://") /\ at(t, i + 1, "fanfiction.net/s/") /\ at(t, i + 2, "1")
    THEN Match(i, run_end(t, i + 2, {"1"}), <<"ffn_id", "FFN">>)
    ELSE IF at(t, i, "fanfiction.net/s/") /\ at(t, i + 1, "1")
    THEN Match(i, run_end(t, i + 1, {"1"}), <<"ffn_id", "FFN">>)
    ELSE IF at(t, i, "archiveofourown.org/works/") /\ at(t, i + 1, "1")
    THEN Match(i, run_end(t, i + 1, {"1"}), <<"type", "ao3_id", "AO3">>)
    ELSE IF at(t, i, "forums.spacebattles.com/threads/")
    THEN Match(i, run_end(t, i + 1, Pieces \ {" "}), <<"SB">>)
    ELSE NoMatch

\* STORY_WEBSITE_REGEX.search(t, i): the match at the first position from
\* i on that has one.
RECURSIVE regex_search(_, _)
regex_search(t, i) ==
    IF i > Len(t) THEN NoMatch
    ELSE IF regex_match(t, i) # NoMatch THEN regex_match(t, i)
    ELSE regex_search(t, i + 1)

\* The scan going on from the piece after the first of the match.
resume_inside(m) == m.start + 1

\* Where re.finditer goes on after a match: at its end.
resume(m) == m.end

\* Nothing has been scanned.
InitDetect ==
    /\ text = <<>>
    /\ scan_pos = 0
    /\ found = <<>>
    /\ scans = <<>>

\* re.finditer(STORY_WEBSITE_REGEX, text) is called: on a text for the
\* first scan, on the same text for the second.
finditer ==
    /\ scan_pos = 0
    /\ Len(scans) < 2
    /\ IF scans = <<>>
       THEN \E t \in UNION {[1..n -> Pieces] : n \in 0..MaxPieces} : text' = t
       ELSE text' = text
    /\ scan_pos' = 1
    /\ found' = <<>>
    /\ UNCHANGED scans
    /\ UNCHANGED <<browse_vars, resolve_vars, links_vars, store_vars,
                   message_vars, render_vars>>

\* The iterator gives its next match.
next_match ==
    /\ scan_pos >= 1
    /\ regex_search(text, scan_pos) # NoMatch
    /\ found' = Append(found, regex_search(text, scan_pos))
    /\ scan_pos' = resume(regex_search(text, scan_pos))
    /\ UNCHANGED <<text, scans>>
    /\ UNCHANGED <<browse_vars, resolve_vars, links_vars, store_vars,
                   message_vars, render_vars>>

\* The iterator is exhausted: the scan is complete.
finditer_exhausted ==
    /\ scan_pos >= 1
    /\ regex_search(text, scan_pos) = NoMatch
    /\ scans' = Append(scans, found)
    /\ scan_pos' = 0
    /\ found' = <<>>
    /\ UNCHANGED text
    /\ UNCHANGED <<browse_vars, resolve_vars, links_vars, store_vars,
                   message_vars, render_vars>>

DetectNext ==
    \/ finditer
    \/ next_match
    \/ finditer_exhausted

-----------------------------------------------------------------------------
(* Properties of the browse session *)

NavOps == {"select", "prev", "next"}

AllDisabled == \A i \in Items : disabled[i]

\* The state is the one left by construction or by a transition the owner
\* drove (rendered or failed), with nothing else having happened since.
AfterTransition ==
    /\ last.actor = author_id
    /\ last.op \in NavOps \cup {"init"}
    /\ last.out \in {"sent", "edit", "IndexError"}

\* C1: in every state reachable by owner-driven select/previous/next
\* transitions, each driven while its item is enabled, the page index is
\* within [0, N].
C1_PageIndexInRange == page_index \in 0..total_pages

\* C2: "next" is clamped at N and "previous" at 0: before any timeout, a
\* step in which the owner applies "next" takes the index i to i + 1 when
\* i < N (so that four of them from 0 with N = 3 give 1, 2, 3, 3) and
\* leaves it at N when i = N; a step in which the owner applies "previous"
\* at 0 leaves 0.
C2_NextPreviousClamped ==
    [][/\ (/\ timeout_pc' = "waiting"
           /\ last'.op = "next"
           /\ last'.actor = author_id
           /\ (last' # last \/ page_index' # page_index))
          => page_index' = IF page_index < total_pages
                           THEN page_index + 1 ELSE page_index
       /\ (/\ last'.op = "prev"
           /\ last'.actor = author_id
           /\ page_index = 0)
          => page_index' = 0]_vars

\* C3: after construction and after every transition, "next" is disabled
\* exactly when the page index equals N.
C3_NextDisabledIffLastPage ==
    AfterTransition => (disabled["next"] <=> page_index = total_pages)

\* C4: after construction and after every transition, the flags are those
\* computed from the new index, and "previous" is disabled exactly when the
\* page index equals 0.
C4_PreviousDisabledIffFirstPage ==
    AfterTransition =>
        /\ disabled["prev"] <=> page_index = 0
        /\ disabled["prev"] = disable_page_buttons(disabled, page_index)["prev"]
        /\ disabled["next"] = disable_page_buttons(disabled, page_index)["next"]

\* C5: the page a transition renders is the series overview at index 0 and
\* the card of sub-entry i - 1 (the i-th work) at index i in 1..N, and
\* rendering never addresses a sub-entry outside the list.
C5_RenderedPageMatchesIndex ==
    AfterTransition =>
        /\ last.out # "IndexError"
        /\ page_index = 0 =>
               format_page(page_index, embed_cache, clock).page = SeriesPage
        /\ page_index \in 1..total_pages =>
               format_page(page_index, embed_cache, clock).page
                   = WorkPage(page_index)
        /\ \A e \in BagToSet(edits) : e.page.kind # "IndexError"

\* C6: a navigation attempt by a user other than the owner leaves the page
\* index and the flags of the items unchanged, and the actor gets the
\* rejection notice.
C6_NonOwnerRejected ==
    [][(/\ last'.actor \in Users \ {author_id}
        /\ last'.op \in NavOps
        /\ last'.out # "disabled")
       => /\ page_index' = page_index
          /\ disabled' = disabled
          /\ last'.out = "notice"]_vars

\* C6 witness: after the owner has moved off the overview, another user's
\* attempt was answered with the notice.
C6_Witness ==
    /\ last.actor \in Users \ {author_id}
    /\ last.out = "notice"
    /\ page_index # 0

\* C7: once the idle timeout has fired, every item of the view is disabled
\* and no interaction with any item is delivered in every later state, and
\* the page index never changes again.
C7_TimeoutIsFinal ==
    /\ [](timeout_pc # "waiting" =>
              (AllDisabled /\ \A i \in Items : ~Delivered(i)))
    /\ [][(timeout_pc # "waiting") =>
              (page_index' = page_index /\ timeout_pc' # "waiting")]_vars

\* C7 witness: the timeout has fired and on_timeout has ended with the
\* view off the overview; a response that was in flight has since put
\* enabled items back on the message, and the view has them disabled.
C7_Witness ==
    /\ timeout_pc = "done"
    /\ page_index # 0
    /\ AllDisabled
    /\ \E i \in Items : ~message.disabled[i]

\* C8: a transition of the owner that arrives after the timeout fired, also
\* while on_timeout waits on its message edit, is rejected: it changes
\* neither the page index nor the disabled flag of any item, and it sends
\* no response.
C8_LateTransitionRejected ==
    [][(/\ timeout_pc # "waiting"
        /\ last' # last
        /\ last'.actor = author_id
        /\ last'.op \in NavOps \cup {"undelivered"})
       => /\ page_index' = page_index
          /\ disabled' = disabled
          /\ edits' = edits
          /\ last'.out \in {"dropped", "disabled"}]_vars

\* C8 witness: on_timeout waits on its message edit, the message still
\* shows ">" enabled, and the owner's press of ">" reached no callback.
C8_Witness ==
    /\ timeout_pc = "editing"
    /\ ~message.disabled["next"]
    /\ last = [op |-> "undelivered", actor |-> author_id, out |-> "dropped"]
    /\ page_index < total_pages

\* The step is a navigation transition that rendered: it sent a response
\* and let no response reach the message.
RenderingTransition ==
    /\ last'.op \in NavOps
    /\ last'.out = "edit"
    /\ edits \sqsubseteq edits'
    /\ message' = message
    /\ timeout_pc' = timeout_pc

\* The response a transition sends when it renders at index idx.
ResponseAt(idx) ==
    [page |-> format_page(idx, embed_cache, clock).page,
     disabled |-> [disabled EXCEPT !["prev"] = (idx = 0),
                                   !["next"] = (idx = total_pages - 1)]]

\* C27: a navigation transition updates the index, renders the page and
\* recomputes the flags with no suspension between them: the response it
\* sends carries the page and the flags of the index the session holds when
\* the transition has rendered, whatever other responses are in flight, and
\* the responses already in flight are left as they were sent.
C27_TransitionRendersAtomically ==
    [][RenderingTransition =>
          /\ edits' = edits (+) SetToBag({ResponseAt(page_index')})
          /\ disabled' = ResponseAt(page_index').disabled
          /\ ResponseAt(page_index').page.kind # "IndexError"]_vars

\* Two transitions of the owner are in flight at once, for different pages,
\* the later one being the last thing that happened.
C27_Witness ==
    /\ last.actor = author_id
    /\ last.op \in NavOps
    /\ last.out = "edit"
    /\ BagCardinality(edits) = 2
    /\ \E e \in BagToSet(edits) :
          e.page # format_page(page_index, embed_cache, clock).page
    /\ BagIn([page |-> format_page(page_index, embed_cache, clock).page,
              disabled |-> disabled], edits)

-----------------------------------------------------------------------------
(* Properties of the fallback chains *)

\* The log records that announce a fallback to the next provider.
FallbackMessages ==
    {"Retrieval with Atlas client failed. Trying FicHub now.",
     "Retrieval with Fichub client failed. Trying the AO3 scraping library now."}
FallbackEvents == {k \in 1..Len(logs) : logs[k].msg \in FallbackMessages}

\* C9: when search_ffn is called with a query that holds a numeric id, the
\* Atlas client raises AtlasException and the FicHub client succeeds, the
\* coroutine returns the answer of FicHub to the original query string and
\* exactly one fallback log record was emitted.
C9_FfnFallsBackToFicHub ==
    (/\ fn = "search_ffn"
     /\ call_pc = "done"
     /\ extract_fic_id(query) # NoId
     /\ providers["atlas"] = "fail"
     /\ providers["fichub"] = "ok")
    => /\ result = Returned(AnswerOf(
                       Request("fichub", "get_story_metadata", query, 0)))
       /\ Cardinality(FallbackEvents) = 1

\* C10: in search_ffn and search_ao3 a provider is asked after another only
\* if the one asked before it raised its own exception class; when the
\* first provider answers, also with nothing, no other provider is asked
\* and the coroutine returns that answer (None when it is empty).
C10_FallbackOnlyAfterFailure ==
    fn \in {"search_ffn", "search_ao3"} =>
        /\ \A k \in 2..Len(calls) : providers[calls[k - 1].client] = "fail"
        /\ providers[calls[1].client] \in {"ok", "empty"} =>
               /\ Len(calls) = 1
               /\ call_pc = "done" =>
                      result = Returned(IF providers[calls[1].client] = "ok"
                                        THEN AnswerOf(calls[1]) ELSE None)

\* C10 witness: search_ffn asked Atlas by id, Atlas answered with nothing,
\* and None was returned with FicHub never asked.
C10_Witness ==
    /\ fn = "search_ffn"
    /\ call_pc = "done"
    /\ truthy(extract_fic_id(query))
    /\ providers["atlas"] = "empty"
    /\ providers["fichub"] = "ok"
    /\ calls = <<Request("atlas", "get_story_metadata",
                         IdArg("FFN", extract_fic_id(query)), 0)>>
    /\ result = Returned(None)

-----------------------------------------------------------------------------
(* Properties of the resolution of AO3 links *)

\* The search in progress is search_ao3 on a link of the given type.
Ao3Link(type) ==
    /\ fn = "search_ao3"
    /\ call_pc # "idle"
    /\ ao3_match(query)
    /\ query.type = type

\* The requests of the works branch, in the order the code makes them.
WorksFirst == Request("fichub", "get_story_metadata", group0(query), 0)

WorksSecond == Request("ao3", "get_work", IdArg("AO3", query.id), 0)

\* C11: for an AO3 works link with id k the first request is FicHub's
\* get_story_metadata with the matched URL; a second request is made if and
\* only if FicHub raised its own exception, and it is the AO3 client's
\* get_work(k); when both raise their own exceptions the search returns None
\* and raises nothing.
C11_WorksFicHubThenArchive ==
    Ao3Link("works") =>
        /\ Len(calls) \in 1..2
        /\ calls[1] = WorksFirst
        /\ Len(calls) = 2 => calls[2] = WorksSecond
        /\ Len(calls) = 2 <=>
               (providers["fichub"] = "fail" /\ call_pc # "ao3_fichub")
        /\ (call_pc = "done" /\ providers["fichub"] = "fail"
                /\ providers["ao3"] = "fail") => result = Returned(None)

\* An AO3 works link with a non-zero id and text after it, where FicHub and
\* the archive client have both failed.
C11_Witness ==
    /\ Ao3Link("works")
    /\ query.id > 0
    /\ query.extra
    /\ call_pc = "done"
    /\ providers["fichub"] = "fail"
    /\ providers["ao3"] = "fail"
    /\ calls = <<WorksFirst, WorksSecond>>
    /\ result = Returned(None)

\* The only request of the series branch.
SeriesOnly == Request("ao3", "get_series", IdArg("AO3", query.id), 0)

\* C12: for an AO3 series link exactly one request is made, the AO3 client's
\* get_series with the captured id; FicHub is never asked; when the archive
\* client raises its own exception the search returns None and raises
\* nothing.
C12_SeriesArchiveOnly ==
    Ao3Link("series") =>
        /\ calls = <<SeriesOnly>>
        /\ \A i \in 1..Len(calls) : calls[i].client # "fichub"
        /\ (call_pc = "done" /\ providers["ao3"] = "fail") =>
               result = Returned(None)

\* An AO3 series link whose lookup has failed in the archive client, while
\* FicHub would have answered.
C12_Witness ==
    /\ Ao3Link("series")
    /\ query.id > 0
    /\ call_pc = "done"
    /\ providers["ao3"] = "fail"
    /\ providers["fichub"] = "ok"
    /\ calls = <<SeriesOnly>>
    /\ logs = <<Exception("")>>
    /\ result = Returned(None)

\* C13: no search coroutine lets a provider's own exception reach its
\* caller, whatever the query and however the providers answer.
C13_NoProviderFailurePropagated ==
    (call_pc = "done" /\ fn \in {"search_ao3", "search_ffn", "search_other"}) =>
        ~(result.status = "raised"
            /\ result.exc \in {ExceptionOf(c) : c \in Clients})

-----------------------------------------------------------------------------
(* Properties of the resolution of the links of a message *)

\* The generator has finished, by returning or by raising.
Finished == gen_pc \in {"exhausted", "raised"}

\* An entry is about a match: if found, it answers a request for the link
\* of the match or for its id.
EntryOf(entry, m) ==
    entry.found => entry.from.arg \in {m, IdArg(m.site, m.id)}

\* C14: get_ff_data_from_links yields one entry for each match, in the
\* order of the matches, the k-th entry being the resolution of the k-th
\* match; however the providers answer, the finished generator has yielded
\* as many entries as the text has matches.
C14_OneEntryPerMatch ==
    /\ Len(yielded) <= Len(matches)
    /\ \A k \in 1..Len(yielded) : EntryOf(yielded[k], matches[k])
    /\ Finished => Len(yielded) = Len(matches)

\* C15: a failure while resolving one match does not reach the consumer of
\* the generator and does not keep the later matches from being resolved.
C15_FailureIsolatedPerMatch ==
    /\ gen_pc # "raised"
    /\ Finished => match_idx > Len(matches)

\* What search_ffn returns or raises for name_or_url = q while the clients
\* answer as oc.
search_ffn_result(q, oc) ==
    LET fic_id == extract_fic_id(q)
        by_id == Request("atlas", "get_story_metadata", IdArg("FFN", fic_id), 0)
        by_url == Request("fichub", "get_story_metadata", q, 0)
        by_title == Request("atlas", "get_bulk_metadata", q, bulk_limit)
        answered(o, req) == Returned(IF o = "ok" THEN AnswerOf(req) ELSE None)
    IN  IF truthy(fic_id)
        THEN CASE oc["atlas"] \in {"ok", "empty"} -> answered(oc["atlas"], by_id)
               [] oc["atlas"] = "error" -> Raised("other")
               [] oc["atlas"] = "fail" ->
                      CASE oc["fichub"] \in {"ok", "empty"} ->
                               answered(oc["fichub"], by_url)
                        [] oc["fichub"] = "fail" -> Returned(None)
                        [] oc["fichub"] = "error" -> Raised("other")
        ELSE CASE oc["atlas"] \in {"ok", "empty"} -> answered(oc["atlas"], by_title)
               [] oc["atlas"] = "fail" -> Raised(ExceptionOf("atlas"))
               [] oc["atlas"] = "error" -> Raised("other")

\* search_ffn_result is what the steps of search_ffn end in.
SearchFfnResultIsSearchFfn ==
    (fn = "search_ffn" /\ call_pc = "done") =>
        result = search_ffn_result(query, providers)

\* C16: the resolution of an FFN match in get_ff_data_from_links ends as
\* search_ffn ends on the same link, however the providers answer; in
\* particular FicHub is asked when Atlas has raised its own exception.
C16_FfnMatchAsSearchFfn ==
    (fn = "get_ff_data_from_links" /\ call_pc = "done") =>
        /\ result = search_ffn_result(query, providers)
        /\ providers["atlas"] = "fail" =>
               \E i \in 1..Len(calls) : calls[i].client = "fichub"

-----------------------------------------------------------------------------
(* Properties of the settings store *)

\* The set a list of locations stands for.
SetOf(locations) == {locations[i] : i \in 1..Len(locations)}

\* What select_by_scope(s) returns on database d when nothing fails.
select_by_scope(d, s) == _query(d, SELECT_BY_GUILD_STATEMENT, <<s>>, 0).rows

\* The guild of a non-empty list of locations of one guild.
ScopeOf(locations) == guild_id_of(locations[1])

\* The step is a call of op on a non-empty list of locations in which the
\* engine does not fail.
BatchCall(op) ==
    /\ store_call'.op = op
    /\ Len(store_call'.locations) > 0
    /\ store_call'.fault = 0

\* C17: add(batch), for a non-empty batch of locations of one scope s,
\* returns the previous set of s united with the batch, and a following
\* select_by_scope(s) returns the same set.
C17_AddReturnsUnion ==
    [][BatchCall("add") =>
          LET s == ScopeOf(store_call'.locations) IN
          /\ store_call'.exc = "none"
          /\ store_call'.rows =
                 select_by_scope(db, s) \cup SetOf(store_call'.locations)
          /\ select_by_scope(db', s) = store_call'.rows]_vars

\* (1, 10) and (1, 11) have been added in one call and are all there is,
\* and the call returned exactly them.
C17_Witness ==
    /\ store_call.op = "add"
    /\ store_call.fault = 0
    /\ store_call.locations = <<AutoresponseLocation(1, 10), AutoresponseLocation(1, 11)>>
    /\ store_call.exc = "none"
    /\ store_call.rows = {AutoresponseLocation(1, 10), AutoresponseLocation(1, 11)}
    /\ select_by_scope(db, 1) = store_call.rows
    /\ select_by_scope(db, 2) = {}

\* C18: remove(batch), for a non-empty batch of locations of one scope s,
\* succeeds and returns the previous set of s minus the batch, which is
\* what the store then holds for s.
C18_RemoveReturnsDifference ==
    [][BatchCall("drop") =>
          LET s == ScopeOf(store_call'.locations) IN
          /\ store_call'.exc = "none"
          /\ store_call'.rows =
                 select_by_scope(db, s) \ SetOf(store_call'.locations)
          /\ select_by_scope(db', s) = store_call'.rows]_vars

\* C19: after adds for scope s, clear(s) completes without an error and
\* select_by_scope(s) then returns the empty set.
C19_ClearEmptiesScope ==
    [][(/\ store_call'.op = "clear"
        /\ store_call'.fault = 0
        /\ select_by_scope(db, store_call'.guild_id) # {}) =>
          /\ store_call'.exc = "none"
          /\ select_by_scope(db', store_call'.guild_id) = {}]_vars

\* The rows of the settings table, and what a call that returns leaves of
\* them.
Settings(d) == d[SELECT_BY_GUILD_STATEMENT.table]

Applied(call, rows) ==
    CASE call.op = "add" -> rows \cup SetOf(call.locations)
      [] call.op = "drop" -> rows \ SetOf(call.locations)
      [] call.op = "clear" -> {row \in rows : guild_id_of(row) # call.guild_id}

\* C20: a call of add, remove or clear either returns with its whole batch
\* applied or raises with the stored set as it was before the call; a
\* failure of the engine during the call is raised to the caller.
C20_StoreCallAtomic ==
    [][store_call'.op \in {"add", "drop", "clear"} =>
          /\ store_call'.exc = "none" =>
                 Settings(db') = Applied(store_call', Settings(db))
          /\ store_call'.exc # "none" => db' = db
          /\ store_call'.fault # 0 => store_call'.exc # "none"]_vars

\* An add of two locations has failed at its second INSERT: the failure
\* was raised and the first location is not stored.
C20_Witness ==
    /\ store_call.op = "add"
    /\ Len(store_call.locations) = 2
    /\ store_call.fault = 2
    /\ store_call.exc = "IOError"
    /\ store_call.locations[1] \notin Settings(db)

\* The scopes a call is for: the guild of clear, the guilds of the
\* locations of add and remove.
ScopesOf(call) ==
    IF call.op = "clear" THEN {call.guild_id}
    ELSE {guild_id_of(location) : location \in SetOf(call.locations)}

\* C29: add, remove and clear called for scope s leave the set of
\* locations of every other scope as it was, and the set they return holds
\* only locations of scope s.
C29_StoreCallScoped ==
    [][store_call'.op \in {"add", "drop", "clear"} =>
          /\ \A g \in Guilds \ ScopesOf(store_call') :
                 select_by_scope(db', g) = select_by_scope(db, g)
          /\ \A row \in store_call'.rows :
                 guild_id_of(row) \in ScopesOf(store_call')]_vars

\* An add for guild 1 has returned the locations of guild 1 while guild 2
\* has locations of its own.
C29_Witness ==
    /\ store_call.op = "add"
    /\ store_call.exc = "none"
    /\ ScopesOf(store_call) = {1}
    /\ store_call.rows = select_by_scope(db, 1)
    /\ store_call.rows # {}
    /\ select_by_scope(db, 2) # {}

\* C30: add or remove called with an empty list of locations returns
\* without an error, leaves the store as it was and returns the current set
\* of the scope of the command.
C30_EmptyBatchReportsCurrentSet ==
    [][(/\ store_call'.op \in {"add", "drop"}
        /\ Len(store_call'.locations) = 0
        /\ store_call'.fault = 0) =>
          /\ store_call'.exc = "none"
          /\ db' = db
          /\ \E s \in Guilds : store_call'.rows = select_by_scope(db, s)]_vars

-----------------------------------------------------------------------------
(* Properties of on_message *)

\* C21: lookups are started for a message only if the location of the
\* message is in the settings of the database at the time the message is
\* handled, and they are started from a read of the database made for
\* that message.
C21_GateFromFreshRead ==
    [][(gen_pc = "idle" /\ gen_pc' = "running") =>
          /\ AutoresponseLocation(incoming'.guild, incoming'.channel) \in Settings(db)
          /\ store_call'.op = "query"
          /\ store_call'.guild_id = incoming'.guild
          /\ store_call'.rows = select_by_scope(db, incoming'.guild)
          /\ matches' = incoming'.content]_vars

\* A message is scanned in a guild that has a second location beside the
\* one of the message.
C21_Witness ==
    /\ gen_pc = "running"
    /\ AutoresponseLocation(incoming.guild, incoming.channel) \in Settings(db)
    /\ \E row \in Settings(db) :
          /\ guild_id_of(row) = incoming.guild
          /\ channel_id_of(row) # incoming.channel

\* C28: while a message is scanned, the embeds sent are those of the
\* entries that are records, one for each and in the order of the entries,
\* up to the entry whose render raised, if one did; nothing is sent for an
\* entry that is None, so there are never more embeds than matches.
C28_CardsOnlyForFoundEntries ==
    LET records == SelectSeq(yielded, LAMBDA entry : entry.found) IN
    /\ Len(sent) <= Len(matches)
    /\ Len(sent) = IF gen_pc = "abandoned" THEN Len(records) - 1
                   ELSE Len(records)
    /\ \A i \in 1..Len(sent) :
          /\ sent[i].of = records[i]
          /\ sent[i].builder # "NotFoundEmbed"

\* A scan has ended with an entry that is None before an entry that is a
\* record.
C28_Witness ==
    /\ gen_pc = "exhausted"
    /\ Len(sent) >= 1
    /\ \E i, j \in 1..Len(yielded) :
          i < j /\ yielded[i] = None /\ yielded[j].found

-----------------------------------------------------------------------------
(* Properties of ff_embed_factory and the embed builders *)

\* C22: a value is given to the builder of its type, one builder for each
\* of the four types of records, and the embed returned is the one that
\* builder made of the value; for a value of any other type, None among
\* them, the NotFoundEmbed is returned, which shows nothing of the value,
\* and nothing is raised.
C22_DispatchOnType ==
    \A r \in rendered :
        /\ story_type(r.story_data) = "atlas_api.Story"
                => r.strategy = "create_atlas_ffn_embed"
        /\ story_type(r.story_data) = "fichub_api.Story"
                => r.strategy = "create_fichub_embed"
        /\ story_type(r.story_data) = "ao3.Work"
                => r.strategy = "create_ao3_work_embed"
        /\ story_type(r.story_data) = "ao3.Series"
                => r.strategy = "create_ao3_series_embed"
        /\ story_type(r.story_data) \in
                {"atlas_api.Story", "fichub_api.Story", "ao3.Work", "ao3.Series"}
                /\ r.exc = "none"
                => r.embed.builder = r.strategy /\ r.embed.of = r.story_data
        /\ story_type(r.story_data) \notin
                {"atlas_api.Story", "fichub_api.Story", "ao3.Work", "ao3.Series"}
                => /\ r.strategy = "NotFoundEmbed"
                   /\ r.exc = "none"
                   /\ r.embed.builder = "NotFoundEmbed" /\ r.embed.of = None

\* None, a value of another type and a record of each type have been
\* rendered, and an embed was returned for each.
C22_Witness ==
    /\ \E r \in rendered : r.story_data = None
    /\ \E r \in rendered : r.story_data = Unrecognised
    /\ \A t \in DOMAIN EMBED_STRATEGIES :
          \E r \in rendered : story_type(r.story_data) = t /\ r.exc = "none"

\* C23: a value rendered again, at any later time and with any renders in
\* between, gives the embed it gave before.
C23_EqualValuesRenderIdentically ==
    [][\A r \in rendered, q \in rendered' :
          r.story_data = q.story_data => r.embed = q.embed]_vars

\* C26: the builders keep fewer embeds than there are records they make
\* an embed of.
C26_CacheBounded ==
    Cardinality(embed_cache)
        < Cardinality({s \in Stories : ff_embed_factory(s, {}, 0).exc = "none"})

\* C24: every builder returns for every summary, the embed it returns is
\* no larger than the limit, and the summary was given the limit less the
\* size of the other fields.
C24_CardWithinBudget ==
    built # NoCard =>
        /\ built.exc = "none"
        /\ built.size <= EmbedLimit
        /\ built.width = EmbedLimit - (built.record.other + built.record.links)

-----------------------------------------------------------------------------
(* Properties of re.finditer on STORY_WEBSITE_REGEX *)

\* C25: the matches of a scan are in the order of their first piece and do
\* not overlap, each has as its lastgroup a key of STORY_WEBSITE_STORE, and
\* two scans of a text give the same matches.
C25_MatchesOrderedAndStable ==
    /\ \A ms \in {found} \cup {scans[k] : k \in 1..Len(scans)} :
          /\ \A i, j \in 1..Len(ms) :
                i < j => ms[i].start < ms[j].start /\ ms[i].end <= ms[j].start
          /\ \A i \in 1..Len(ms) :
                /\ ms[i].lastgroup \in STORY_WEBSITE_STORE
                /\ ms[i].start < ms[i].end
    /\ Len(scans) = 2 => scans[1] = scans[2]

\* A text has been scanned twice and has two matches, the first begun by a
\* scheme.
C25_Witness ==
    /\ Len(scans) = 2
    /\ Len(scans[2]) >= 2
    /\ text[1] = "https://"
    /\ scans[2][1].start = 1

-----------------------------------------------------------------------------

\* The module after its import and WebficSearcherBot.__init__: no view has
\* been built, the caches of the builders are empty, the database is as
\* _setup_db leaves it, and no search, message or scan is in progress.
Init ==
    /\ InitBrowse /\ InitResolve /\ InitLinks /\ InitStore
    /\ InitRender /\ InitMessage /\ built = NoCard /\ InitDetect

\* A step of the program is a step of one of its handlers: of the view
\* wf_search has sent, of wf_search and the search coroutines, of
\* get_ff_data_from_links, of the autoresponse store, of ff_embed_factory,
\* of on_message, of an embed builder or of the scan for links.
Next ==
    \/ BrowseNext \/ ResolveNext \/ LinksNext \/ StoreNext
    \/ RenderNext \/ MessageNext \/ build_card \/ DetectNext

\* The program: the handlers interleaved at their awaits, from the state
\* the import leaves.
Spec == Init /\ [][Next]_vars

\* A browse session begins: wf_search was called for the ao3 platform with
\* the link of a series, search_ao3 has returned the series, of up to
\* MaxWorks works, and the view has been built and sent with the embed of
\* the series.
InitView ==
    LET q == Url("AO3", "series", 1, FALSE)
        req == Request("ao3", "get_series", IdArg("AO3", 1), 0)
        embed == ff_embed_factory(AnswerOf(req), {}, 0)
    IN /\ total_pages \in 0..MaxWorks
       /\ series = AnswerOf(req)
       /\ page_index = 0
       /\ disabled = disable_page_buttons([i \in Items |-> FALSE], 0)
       /\ stopped = FALSE
       /\ timeout_pc = "waiting"
       /\ message = [page |-> SeriesPage, disabled |-> disabled]
       /\ edits = EmptyBag
       /\ last = [op |-> "init", actor |-> author_id, out |-> "sent"]
       /\ fn = "search_ao3"
       /\ query = q
       /\ providers = [c \in Clients |-> "ok"]
       /\ call_pc = "done"
       /\ calls = <<req>>
       /\ logs = <<>>
       /\ result = Returned(AnswerOf(req))
       /\ followup = [embed |-> embed.embed, view |-> TRUE, exc |-> "none",
                      pending |-> FALSE]
       /\ clock = 0
       /\ embed_cache = embed.cache
       /\ rendered = {[story_data |-> AnswerOf(req), strategy |-> embed.strategy,
                       embed |-> embed.embed, exc |-> embed.exc]}
       /\ InitLinks /\ InitStore /\ InitMessage /\ built = NoCard /\ InitDetect

SpecBrowse == InitView /\ [][BrowseNext]_vars

SpecResolve == Init /\ [][ResolveNext]_vars

SpecLinks == Init /\ [][LinksNext]_vars

SpecStore == Init /\ [][StoreNext]_vars
SpecRender == Init /\ [][RenderNext]_vars
SpecMessage == Init /\ [][MessageNext]_vars
SpecCard == Init /\ [][build_card]_vars
SpecDetect == Init /\ [][DetectNext]_vars

=============================================================================
